---- MODULE Spec2Model ----
(***************************************************************************)
(* Model of the business rules of the netbox excerpt:                      *)
(*   - circuits/views.py   CircuitSwapTerminations (get / post)            *)
(*   - users/api/serializers.py  UserSerializer.create,                    *)
(*     TokenSerializer.validate, TokenProvisionSerializer.validate         *)
(* Three specifications share the module: Spec drives the swap view        *)
(* against a small relational database, SpecUsers drives user creation and *)
(* token provisioning, SpecTokens drives token validation.                 *)
(***************************************************************************)
EXTENDS Integers, Sequences, FiniteSets, TLC

\* ---------------------------------------------------------------- bounds
NumCircuits == 2
NumTerms == 3

Circuits == 1..NumCircuits
TermPks == 1..NumTerms

\* Python None / SQL NULL for a primary key or foreign key
None == 0

VARIABLES db, pc, loc, txSnapshot, response,
          userDb, grantPerm, upc, uloc, uresp

cvars == <<db, pc, loc, txSnapshot, response>>
uvars == <<userDb, grantPerm, upc, uloc, uresp>>
vars == <<db, pc, loc, txSnapshot, response, userDb, grantPerm, upc, uloc, uresp>>

\* ------------------------------------------------------- circuits: data
\* CircuitTermination.term_side choices
Sides == {"A", "Z"}

\* the placeholder term_side used by the two-termination swap
PlaceholderA == "A"
Placeholder == "_"

\* a CircuitTermination object that does not exist (.first() returned None)
NoTermination == [pk |-> None, circuit |-> None, term_side |-> ""]

\* a row of the circuit-termination table that is not in use
AbsentRow == [circuit |-> None, term_side |-> ""]

TermRows == {AbsentRow} \cup [circuit : Circuits, term_side : Sides]

\* the (circuit, term_side) unique constraint of CircuitTermination
UniqueTermSide(terms) ==
    \A t1, t2 \in TermPks :
        (t1 # t2 /\ terms[t1].circuit # None /\ terms[t1].circuit = terms[t2].circuit)
            => terms[t1].term_side # terms[t2].term_side

\* pk of the termination of circuit c on the given side, None when there is none
TermOn(terms, c, side) ==
    IF \E t \in TermPks : terms[t].circuit = c /\ terms[t].term_side = side
    THEN CHOOSE t \in TermPks : terms[t].circuit = c /\ terms[t].term_side = side
    ELSE None

\* a database in which Circuit.termination_a / termination_z cache the
\* terminations of each circuit
DbOf(terms) ==
    [terms |-> terms,
     circuits |-> [c \in Circuits |->
                     [termination_a |-> TermOn(terms, c, "A"),
                      termination_z |-> TermOn(terms, c, "Z")]]]

NoResponse == [kind |-> "none", msg |-> "", circuit |-> None, at |-> ""]

NoLocals == [pk |-> None,
             circuit |-> [termination_a |-> None, termination_z |-> None],
             termination_a |-> NoTermination,
             termination_z |-> NoTermination,
             pre |-> DbOf([t \in TermPks |-> AbsentRow])]

\* ------------------------------------------------- circuits: ORM helpers
\* CircuitTermination.objects.filter(pk=...).first()
FirstTermination(d, pk) ==
    IF pk # None /\ d.terms[pk].circuit # None
    THEN [pk |-> pk, circuit |-> d.terms[pk].circuit, term_side |-> d.terms[pk].term_side]
    ELSE NoTermination

\* would saving the termination object violate the unique constraint?
IntegrityError(d, obj) ==
    \E t \in TermPks :
        /\ t # obj.pk
        /\ d.terms[t].circuit = obj.circuit
        /\ d.terms[t].term_side = obj.term_side

\* post_save receiver of CircuitTermination: the parent circuit is reloaded,
\* its attribute termination_<term_side.lower()> is set to the instance and
\* the circuit is saved; for the placeholder side the attribute is no field.
update_circuit(d, obj) ==
    IF obj.term_side = "A"
    THEN [d EXCEPT !.circuits[obj.circuit].termination_a = obj.pk]
    ELSE IF obj.term_side = "Z"
    THEN [d EXCEPT !.circuits[obj.circuit].termination_z = obj.pk]
    ELSE d

\* termination.save(): write the row, then run the post_save receiver
SaveTermination(d, obj) ==
    update_circuit([d EXCEPT !.terms[obj.pk] =
                        [circuit |-> obj.circuit, term_side |-> obj.term_side]], obj)

\* circuit.refresh_from_db()
RefreshStale(d, c, old) == old
RefreshFromDb(d, c, old) == d.circuits[c]

\* circuit.save(): every field of the object is written
SaveCircuit(d, c, obj) == [d EXCEPT !.circuits[c] = obj]

\* leaving transaction.atomic() with an exception / normally
RollbackKeep(snapshot, working) == working
Rollback(snapshot, working) == snapshot

\* the assignments of the two-termination branch
SwapAssignSame(circuit, ta, tz) ==
    [termination_a |-> ta.pk, termination_z |-> tz.pk]
SwapAssign(circuit, ta, tz) ==
    [termination_a |-> tz.pk, termination_z |-> ta.pk]

SwapPcs == {"swap1", "swap2", "swap3", "swap4", "swap5"}

\* ---------------------------------------------------- circuits: actions
CInit ==
    /\ db \in {DbOf(terms) : terms \in {f \in [TermPks -> TermRows] : UniqueTermSide(f)}}
    /\ pc = "idle"
    /\ loc = NoLocals
    /\ txSnapshot = db
    /\ response = NoResponse

\* CircuitSwapTerminations.get
Get(c) ==
    /\ pc = "idle"
    /\ loc' = [NoLocals EXCEPT !.pk = c, !.circuit = db.circuits[c], !.pre = db]
    /\ response' =
         IF db.circuits[c].termination_a = None /\ db.circuits[c].termination_z = None
         THEN [kind |-> "redirect", msg |-> "no_terminations", circuit |-> c, at |-> "get"]
         ELSE [kind |-> "render", msg |-> "", circuit |-> c, at |-> "get"]
    /\ UNCHANGED <<db, pc, txSnapshot>>
    /\ UNCHANGED uvars

\* CircuitSwapTerminations.post up to the choice of the branch
Post(c, valid) ==
    /\ pc = "idle"
    /\ LET circuit == db.circuits[c]
           ta == FirstTermination(db, circuit.termination_a)
           tz == FirstTermination(db, circuit.termination_z)
       IN /\ loc' = [pk |-> c, circuit |-> circuit,
                     termination_a |-> ta, termination_z |-> tz, pre |-> db]
          /\ IF ~valid
             THEN /\ response' = [kind |-> "render", msg |-> "", circuit |-> c, at |-> "post"]
                  /\ UNCHANGED <<pc, txSnapshot>>
             ELSE IF ta # NoTermination /\ tz # NoTermination
             THEN /\ pc' = "swap1"
                  /\ txSnapshot' = db
                  /\ UNCHANGED response
             ELSE IF ta # NoTermination
             THEN /\ pc' = "a1"
                  /\ UNCHANGED <<response, txSnapshot>>
             ELSE IF tz # NoTermination
             THEN /\ pc' = "z1"
                  /\ UNCHANGED <<response, txSnapshot>>
             ELSE \* termination_z is None: termination_z.term_side = 'A' raises
                  /\ response' = [kind |-> "error", msg |-> "AttributeError",
                                  circuit |-> c, at |-> "post"]
                  /\ UNCHANGED <<pc, txSnapshot>>
    /\ UNCHANGED db
    /\ UNCHANGED uvars

\* obj.term_side = side; obj.save() inside the atomic block
SaveInTx(field, side, next) ==
    LET obj == [loc[field] EXCEPT !.term_side = side]
    IN /\ loc' = [loc EXCEPT ![field] = obj]
       /\ IF IntegrityError(db, obj)
          THEN /\ db' = Rollback(txSnapshot, db)
               /\ pc' = "idle"
               /\ response' = [kind |-> "error", msg |-> "IntegrityError",
                               circuit |-> loc.pk, at |-> pc]
          ELSE /\ db' = SaveTermination(db, obj)
               /\ pc' = next
               /\ UNCHANGED response
       /\ UNCHANGED txSnapshot
       /\ UNCHANGED uvars

Swap1 == pc = "swap1" /\ SaveInTx("termination_a", Placeholder, "swap2")
Swap2 == pc = "swap2" /\ SaveInTx("termination_z", "A", "swap3")
Swap3 == pc = "swap3" /\ SaveInTx("termination_a", "Z", "swap4")

Swap4 ==
    /\ pc = "swap4"
    /\ loc' = [loc EXCEPT !.circuit = RefreshFromDb(db, loc.pk, loc.circuit)]
    /\ pc' = "swap5"
    /\ UNCHANGED <<db, txSnapshot, response>>
    /\ UNCHANGED uvars

Success == [kind |-> "redirect", msg |-> "success", circuit |-> loc.pk, at |-> pc]

Swap5 ==
    /\ pc = "swap5"
    /\ LET circuit == SwapAssign(loc.circuit, loc.termination_a, loc.termination_z)
       IN /\ loc' = [loc EXCEPT !.circuit = circuit]
          /\ db' = SaveCircuit(db, loc.pk, circuit)
    /\ txSnapshot' = db'
    /\ pc' = "idle"
    /\ response' = Success
    /\ UNCHANGED uvars

\* a database error raised by any statement of the atomic block
SwapFail ==
    /\ pc \in SwapPcs
    /\ db' = Rollback(txSnapshot, db)
    /\ pc' = "idle"
    /\ response' = [kind |-> "error", msg |-> "DatabaseError", circuit |-> loc.pk, at |-> pc]
    /\ UNCHANGED <<loc, txSnapshot>>
    /\ UNCHANGED uvars

\* obj.term_side = side; obj.save() in autocommit mode
SaveSingle(field, side, next) ==
    LET obj == [loc[field] EXCEPT !.term_side = side]
    IN /\ loc' = [loc EXCEPT ![field] = obj]
       /\ IF IntegrityError(db, obj)
          THEN /\ pc' = "idle"
               /\ response' = [kind |-> "error", msg |-> "IntegrityError",
                               circuit |-> loc.pk, at |-> pc]
               /\ UNCHANGED db
          ELSE /\ db' = SaveTermination(db, obj)
               /\ pc' = next
               /\ UNCHANGED response
       /\ UNCHANGED txSnapshot
       /\ UNCHANGED uvars

SingleA1 == pc = "a1" /\ SaveSingle("termination_a", "Z", "a2")

SingleA2 ==
    /\ pc = "a2"
    /\ loc' = [loc EXCEPT !.circuit = RefreshFromDb(db, loc.pk, loc.circuit)]
    /\ pc' = "a3"
    /\ UNCHANGED <<db, txSnapshot, response>>
    /\ UNCHANGED uvars

SingleA3 ==
    /\ pc = "a3"
    /\ LET circuit == [loc.circuit EXCEPT !.termination_a = None]
       IN /\ loc' = [loc EXCEPT !.circuit = circuit]
          /\ db' = SaveCircuit(db, loc.pk, circuit)
    /\ pc' = "idle"
    /\ response' = Success
    /\ UNCHANGED txSnapshot
    /\ UNCHANGED uvars

SingleZ1 == pc = "z1" /\ SaveSingle("termination_z", "A", "z2")

SingleZ2 ==
    /\ pc = "z2"
    /\ loc' = [loc EXCEPT !.circuit = RefreshFromDb(db, loc.pk, loc.circuit)]
    /\ pc' = "z3"
    /\ UNCHANGED <<db, txSnapshot, response>>
    /\ UNCHANGED uvars

SingleZ3 ==
    /\ pc = "z3"
    /\ LET circuit == [loc.circuit EXCEPT !.termination_z = None]
       IN /\ loc' = [loc EXCEPT !.circuit = circuit]
          /\ db' = SaveCircuit(db, loc.pk, circuit)
    /\ pc' = "idle"
    /\ response' = Success
    /\ UNCHANGED txSnapshot
    /\ UNCHANGED uvars

\* ------------------------------------------------------------ users: data
NumUsers == 2
NumPasswords == 2

Usernames == 1..NumUsers

\* raw passwords, as strings (sequences of characters)
RawPasswords == {<<p>> : p \in 1..NumPasswords}

\* a dict without key k (the dict after dict.pop(k))
PopKeep(d, k) == d
Pop(d, k) == [x \in DOMAIN d \ {k} |-> d[x]]

EmptyDict == [x \in {} |-> None]

\* django.contrib.auth.hashers.make_password: the encoded string carries an
\* algorithm prefix and is never the raw string
make_password(raw) == <<-1>> \o raw

\* check_password(raw, encoded)
check_password(raw, encoded) == encoded = make_password(raw)

NoUser == [exists |-> FALSE, password |-> <<>>, is_active |-> FALSE]

UserRows == {NoUser} \cup
            {[exists |-> TRUE, password |-> make_password(raw), is_active |-> a] :
                raw \in RawPasswords, a \in BOOLEAN}

\* django.contrib.auth.authenticate with the model backend: the user whose
\* stored credential matches and who is active, otherwise None
authenticate(users, username, password) ==
    IF /\ username \in Usernames
       /\ users[username].exists
       /\ check_password(password, users[username].password)
       /\ users[username].is_active
    THEN username
    ELSE None

\* request.user.has_perm('users.grant_token')
has_perm(perms, user) == user \in perms

\* the condition under which TokenSerializer.validate raises PermissionDenied
GrantDeniedNoSelf(perms, token_user, request_user) ==
    token_user # None /\ ~has_perm(perms, request_user)
GrantDenied(perms, token_user, request_user) ==
    token_user # None /\ token_user # request_user /\ ~has_perm(perms, request_user)

\* the validated data returned by TokenProvisionSerializer.validate
ProvisionDataKeepUser(data, user) ==
    Pop(Pop(data, "username"), "password") @@ ("user" :> user)
ProvisionData(data, user) ==
    ("user" :> user) @@ Pop(Pop(data, "username"), "password")

\* ModelSerializer.create: Model.objects.create(**validated_data); a field
\* that is not given keeps the model's default
SuperCreate(validated_data) ==
    [exists |-> TRUE,
     password |-> IF "password" \in DOMAIN validated_data
                  THEN validated_data["password"] ELSE <<>>,
     is_active |-> validated_data["is_active"]]

\* AbstractBaseUser.set_password
set_password_raw(user, raw) == [user EXCEPT !.password = raw]
set_password(user, raw) == [user EXCEPT !.password = make_password(raw)]

NoULocals == [username |-> None, validated_data |-> EmptyDict,
              password |-> <<>>, user |-> NoUser]

NoUResponse == [op |-> "none", outcome |-> "", request_user |-> None,
                token_user |-> None, input |-> EmptyDict, data |-> EmptyDict,
                user |-> None, plain |-> <<>>]

\* --------------------------------------------------------- users: actions
UInit ==
    /\ userDb \in [Usernames -> UserRows]
    /\ grantPerm \in SUBSET Usernames
    /\ upc = "idle"
    /\ uloc = NoULocals
    /\ uresp = NoUResponse

\* UserSerializer.create: password = validated_data.pop('password')
CreatePop(username, raw, active) ==
    /\ upc = "idle"
    /\ ~userDb[username].exists
    /\ LET validated_data == [username |-> username, password |-> raw, is_active |-> active]
       IN uloc' = [username |-> username,
                   validated_data |-> Pop(validated_data, "password"),
                   password |-> validated_data["password"],
                   user |-> NoUser]
    /\ upc' = "create_super"
    /\ uresp' = [NoUResponse EXCEPT !.op = "create", !.outcome = "running",
                                    !.user = username, !.plain = raw]
    /\ UNCHANGED <<userDb, grantPerm>>
    /\ UNCHANGED cvars

\* user = super().create(validated_data)
CreateSuper ==
    /\ upc = "create_super"
    /\ LET user == SuperCreate(uloc.validated_data)
       IN /\ userDb' = [userDb EXCEPT ![uloc.username] = user]
          /\ uloc' = [uloc EXCEPT !.user = user]
    /\ upc' = "create_set_password"
    /\ UNCHANGED <<grantPerm, uresp>>
    /\ UNCHANGED cvars

\* user.set_password(password)
CreateSetPassword ==
    /\ upc = "create_set_password"
    /\ uloc' = [uloc EXCEPT !.user = set_password(uloc.user, uloc.password)]
    /\ upc' = "create_save"
    /\ UNCHANGED <<userDb, grantPerm, uresp>>
    /\ UNCHANGED cvars

\* user.save(); return user
CreateSave ==
    /\ upc = "create_save"
    /\ userDb' = [userDb EXCEPT ![uloc.username] = uloc.user]
    /\ upc' = "idle"
    /\ uresp' = [uresp EXCEPT !.outcome = "ok"]
    /\ UNCHANGED <<grantPerm, uloc>>
    /\ UNCHANGED cvars

\* TokenSerializer.validate; superValid is the outcome of super().validate(data)
TokenValidate(request_user, token_user, superValid) ==
    /\ upc = "idle"
    /\ userDb[request_user].exists
    /\ token_user # None => userDb[token_user].exists
    /\ LET data == [user |-> token_user, description |-> 0]
       IN uresp' = [NoUResponse EXCEPT
                      !.op = "token_validate",
                      !.request_user = request_user,
                      !.token_user = token_user,
                      !.input = data,
                      !.outcome = IF GrantDenied(grantPerm, data["user"], request_user)
                                  THEN "PermissionDenied"
                                  ELSE IF superValid THEN "ok" ELSE "ValidationError",
                      !.data = IF ~GrantDenied(grantPerm, data["user"], request_user) /\ superValid
                               THEN data ELSE EmptyDict]
    /\ UNCHANGED <<userDb, grantPerm, upc, uloc>>
    /\ UNCHANGED cvars

\* the data handed to TokenProvisionSerializer.validate
ProvisionInputs ==
    {[username |-> u, password |-> p, description |-> 0] :
        u \in Usernames, p \in RawPasswords}
    \cup
    {[username |-> u, password |-> p, description |-> 0, user |-> c] :
        u \in Usernames, p \in RawPasswords, c \in Usernames}

\* TokenProvisionSerializer.validate
TokenProvision(data) ==
    /\ upc = "idle"
    /\ LET username == data["username"]
           password == data["password"]
           user == authenticate(userDb, username, password)
       IN uresp' = [NoUResponse EXCEPT
                      !.op = "provision",
                      !.input = data,
                      !.outcome = IF user = None THEN "AuthenticationFailed" ELSE "ok",
                      !.data = IF user = None THEN EmptyDict ELSE ProvisionData(data, user)]
    /\ UNCHANGED <<userDb, grantPerm, upc, uloc>>
    /\ UNCHANGED cvars

\* ------------------------------------------------------- specifications
UIdle ==
    /\ userDb = [u \in Usernames |-> NoUser]
    /\ grantPerm = {}
    /\ upc = "idle"
    /\ uloc = NoULocals
    /\ uresp = NoUResponse

CIdle ==
    /\ db = DbOf([t \in TermPks |-> AbsentRow])
    /\ pc = "idle"
    /\ loc = NoLocals
    /\ txSnapshot = db
    /\ response = NoResponse

\* the swap view on a database of circuits and terminations
Init == CInit /\ UIdle

Next ==
    \/ \E c \in Circuits : Get(c)
    \/ \E c \in Circuits, valid \in BOOLEAN : Post(c, valid)
    \/ Swap1 \/ Swap2 \/ Swap3 \/ Swap4 \/ Swap5 \/ SwapFail
    \/ SingleA1 \/ SingleA2 \/ SingleA3
    \/ SingleZ1 \/ SingleZ2 \/ SingleZ3

Spec == Init /\ [][Next]_vars

\* user creation and token provisioning against the user table
InitUsers == UInit /\ grantPerm = {} /\ CIdle

NextUsers ==
    \/ \E u \in Usernames, raw \in RawPasswords, a \in BOOLEAN : CreatePop(u, raw, a)
    \/ CreateSuper
    \/ CreateSetPassword
    \/ CreateSave
    \/ \E data \in ProvisionInputs : TokenProvision(data)

SpecUsers == InitUsers /\ [][NextUsers]_vars

\* token validation under every assignment of users.grant_token
InitTokens == UInit /\ CIdle

NextTokens ==
    \E r \in Usernames, t \in Usernames \cup {None}, v \in BOOLEAN : TokenValidate(r, t, v)

SpecTokens == InitTokens /\ [][NextTokens]_vars

\* ------------------------------------------------------------- properties
\* the request that just ended was a POST that reported success
PostSucceeded == pc = "idle" /\ response.msg = "success"

PreCircuit == loc.pre.circuits[loc.pk]

\* the circuit of the request had a termination on both sides, each with the
\* side its cache field names
HadBoth ==
    /\ PreCircuit.termination_a # None
    /\ PreCircuit.termination_z # None
    /\ loc.pre.terms[PreCircuit.termination_a].term_side = "A"
    /\ loc.pre.terms[PreCircuit.termination_z].term_side = "Z"

\* C1: a successful POST on a circuit with an A and a Z termination leaves the
\* former A termination on side Z, the former Z termination on side A,
\* circuit.termination_a referencing the former Z termination and
\* circuit.termination_z referencing the former A termination.
C1_SwapBoth ==
    (PostSucceeded /\ HadBoth) =>
        /\ db.terms[PreCircuit.termination_a].term_side = "Z"
        /\ db.terms[PreCircuit.termination_z].term_side = "A"
        /\ db.circuits[loc.pk].termination_a = PreCircuit.termination_z
        /\ db.circuits[loc.pk].termination_z = PreCircuit.termination_a

C1_Witness == PostSucceeded /\ HadBoth /\ response.at = "swap5"

\* C2: after each save of the two-termination swap (A -> '_', Z -> 'A',
\* '_' -> 'Z') the terminations of a circuit have pairwise different
\* term_side values, and no save of the swap is rejected by the
\* (circuit, term_side) unique constraint.
C2_NoDuplicateSide ==
    /\ UniqueTermSide(db.terms)
    /\ response.msg # "IntegrityError"
    /\ pc = "swap2" =>
          /\ db.terms[loc.termination_a.pk].term_side = "_"
          /\ db.terms[loc.termination_z.pk].term_side = "Z"
    /\ pc = "swap3" =>
          /\ db.terms[loc.termination_a.pk].term_side = "_"
          /\ db.terms[loc.termination_z.pk].term_side = "A"
    /\ pc = "swap4" =>
          /\ db.terms[loc.termination_a.pk].term_side = "Z"
          /\ db.terms[loc.termination_z.pk].term_side = "A"

C2_Witness ==
    /\ pc = "swap3"
    /\ db.terms[loc.termination_a.pk].term_side = "_"
    /\ db.terms[loc.termination_z.pk].term_side = "A"

\* C5: every swap request (GET or POST) on a circuit with neither an A nor a
\* Z termination ends with the 'No terminations have been defined' error and
\* a redirect to the circuit, and changes nothing.
C5_NoTerminations ==
    (/\ pc = "idle"
     /\ response.kind # "none"
     /\ PreCircuit.termination_a = None
     /\ PreCircuit.termination_z = None)
        => /\ response.kind = "redirect"
           /\ response.msg = "no_terminations"
           /\ db = loc.pre

\* C6: when a step of the two-termination swap fails, the terminations and
\* the circuit are exactly as before the request, and no termination with the
\* placeholder side is ever left behind by a finished request.
C6_Atomic ==
    /\ (pc = "idle" /\ response.kind = "error" /\ response.at \in SwapPcs)
          => db = loc.pre
    /\ pc = "idle" => \A t \in TermPks : db.terms[t].term_side # "_"

C6_Witness ==
    /\ pc = "idle"
    /\ response.msg = "DatabaseError"
    /\ response.at = "swap4"
    /\ HadBoth

C3_GrantToken ==
    (upc = "idle" /\ uresp.op = "token_validate") =>
        /\ (/\ uresp.token_user # None
            /\ uresp.token_user # uresp.request_user
            /\ uresp.request_user \notin grantPerm)
              => (uresp.outcome = "PermissionDenied" /\ DOMAIN uresp.data = {})
        /\ (uresp.token_user = uresp.request_user \/ uresp.request_user \in grantPerm)
              => uresp.outcome # "PermissionDenied"

C3_Witness ==
    /\ uresp.op = "token_validate"
    /\ uresp.outcome = "PermissionDenied"
    /\ uresp.token_user # None
    /\ uresp.token_user # uresp.request_user

\* C4: TokenProvisionSerializer.validate raises AuthenticationFailed and
\* yields no data when authenticate returns no user; otherwise the validated
\* data's 'user' is the authenticated user, whatever the client supplied, and
\* the data holds neither 'username' nor 'password'.
C4_Provision ==
    (upc = "idle" /\ uresp.op = "provision") =>
        LET user == authenticate(userDb, uresp.input["username"], uresp.input["password"])
        IN IF user = None
           THEN uresp.outcome = "AuthenticationFailed" /\ DOMAIN uresp.data = {}
           ELSE /\ uresp.outcome = "ok"
                /\ "user" \in DOMAIN uresp.data
                /\ uresp.data["user"] = user
                /\ "username" \notin DOMAIN uresp.data
                /\ "password" \notin DOMAIN uresp.data

C4_Witness ==
    /\ uresp.op = "provision"
    /\ uresp.outcome = "ok"
    /\ "user" \in DOMAIN uresp.input
    /\ uresp.input["user"] # uresp.data["user"]

\* C8: UserSerializer.create removes the password from the validated data
\* before the record is created, the stored password never equals the
\* supplied plaintext, and after create returns it is the hash of it.
C8_PasswordHashed ==
    /\ upc = "create_super" => "password" \notin DOMAIN uloc.validated_data
    /\ (uresp.op = "create" /\ userDb[uresp.user].exists)
          => userDb[uresp.user].password # uresp.plain
    /\ (upc = "idle" /\ uresp.op = "create")
          => userDb[uresp.user].password = make_password(uresp.plain)

C8_Witness ==
    /\ upc = "idle"
    /\ uresp.op = "create"
    /\ uresp.outcome = "ok"
    /\ userDb[uresp.user].exists

====
